---- MODULE Spec2Model ----
(***************************************************************************)
(* Model of the dependency-field parser of go-debian                       *)
(* (dependency/parser.go).  Parse is a recursive-descent parser over a     *)
(* shared cursor (Input); the model has one action per function prologue   *)
(* and per loop iteration, and pc names the loop the parser is in.  Every  *)
(* parse function has exactly one call site, so pc determines the call     *)
(* stack.  A byte is a string: an ASCII byte is its character, the byte 0  *)
(* is NUL, and a byte above 0x7F is written "\\x" and its two hex digits.   *)
(* A Go string is the sequence of its bytes.                               *)
(***************************************************************************)
EXTENDS Integers, Sequences, FiniteSets, TLC

VARIABLES input, pc, dep, relation, possi, version, arch, returned

vars == <<input, pc, dep, relation, possi, version, arch, returned>>

-----------------------------------------------------------------------------
(* Bytes *)

NUL == "NUL"
SP == " "
TAB == "\t"

\* the two bytes of the UTF-8 text U+00E9, as an input may hold them
xC3 == "\\xC3"
xA9 == "\\xA9"

\* string(b) for a byte b, as in `ret.Name += string(input.Next())`: Go
\* converts an integer to the UTF-8 encoding of the code point of that
\* value, one byte below 0x80 and the two bytes 0xC0 | b>>6, 0x80 | b&0x3F
\* from 0x80 to 0xFF.
string_verbatim(b) == <<b>>
string(b) ==
    CASE b = xC3 -> <<"\\xC3", "\\x83">>
      [] b = xA9 -> <<"\\xC2", "\\xA9">>
      [] OTHER -> <<b>>

\* eatWhitespace's case '\r', '\n', ' ', '\t'
IsWhitespace_noTab(b) == b \in {"\r", "\n", SP}
IsWhitespace(b) == b \in {"\r", "\n", SP, TAB}

-----------------------------------------------------------------------------
(* Bounds of the checked inputs *)

MaxRaw == 3
MaxTail == 2
MaxList == 4
MaxGroups == 2
MaxToks == 3

-----------------------------------------------------------------------------
(* Cursor *)

Peek(in) == IF in.Index >= Len(in.Data) THEN NUL ELSE in.Data[in.Index + 1]

Next_twice(in) == [chr |-> Peek(in), input |-> [in EXCEPT !.Index = @ + 2]]
Next(in) == [chr |-> Peek(in), input |-> [in EXCEPT !.Index = @ + 1]]

Advance(in) == Next(in).input

RECURSIVE eatWhitespace(_)
eatWhitespace(in) ==
    IF IsWhitespace(Peek(in)) THEN eatWhitespace(Advance(in)) ELSE in

-----------------------------------------------------------------------------
(* Data model *)

NilVersion == [nil |-> TRUE, Operator |-> <<>>, Number |-> <<>>]

EmptyVersionRelation == [nil |-> FALSE, Operator |-> <<>>, Number |-> <<>>]

NewPossibility ==
    [Name |-> <<>>,
     Version |-> NilVersion,
     Arches |-> [Arches |-> <<>>, Not |-> FALSE],
     Stages |-> [Stages |-> <<>>]]

NewRelation == [Possibilities |-> <<>>]

NilDepedency == [nil |-> TRUE, Relations |-> <<>>]

Depedency(rels) == [nil |-> FALSE, Relations |-> rels]

\* Go's append(slice, elem)
append_front(s, e) == <<e>> \o s
append(s, e) == Append(s, e)

-----------------------------------------------------------------------------
(* Errors *)

NoError == [msg |-> "nil", arg |-> <<>>]
ErrNoName == [msg |-> "No package name in Possibility", arg |-> <<>>]
ErrDupVersion ==
    [msg |-> "Only one Version relation per Possibility, please!", arg |-> <<>>]
ErrDupArch ==
    [msg |-> "Only one Arch relation per Possibility, please!", arg |-> <<>>]
ErrTrailing(b) ==
    [msg |-> "Trailing garbage in a Possibility: %c", arg |-> <<b>>]
ErrOperatorEOF ==
    [msg |-> "Oh no. Reached EOF before Operator finished", arg |-> <<>>]
ErrUnknownOperator(op) ==
    [msg |-> "Unknown Operator in Possibility Version modifier: %s", arg |-> op]
ErrNumberEOF ==
    [msg |-> "Oh no. Reached EOF before Number finished", arg |-> <<>>]
ErrArchEOF ==
    [msg |-> "Oh no. Reached EOF before Arch list finished", arg |-> <<>>]
ErrNegation == [msg |-> "You can only negate whole blocks :(", arg |-> <<>>]
ErrInvalidArch(tok) == [msg |-> "ParseArch", arg |-> tok]

-----------------------------------------------------------------------------
(* The architecture validator ParseArch is a collaborator outside the      *)
(* parser: for a raw token it either returns an architecture identifier    *)
(* determined by the token or signals an error.  Which tokens it rejects   *)
(* is not fixed here: both outcomes are possible for every token.          *)

ParseArch(tok) ==
    {[err |-> NoError, arch |-> tok], [err |-> ErrInvalidArch(tok), arch |-> <<>>]}

-----------------------------------------------------------------------------
(* Case analysis of the switch statements *)

\* switch of parseDependency
DependencyCase_commaEnds(b) ==
    CASE b \in {NUL, ","} -> "eof"
      [] OTHER -> "relation"
DependencyCase(b) ==
    CASE b = NUL -> "eof"
      [] b = "," -> "comma"
      [] OTHER -> "relation"

\* switch of parseRelation
RelationCase_noPipe(b) ==
    CASE b \in {NUL, ","} -> "done"
      [] OTHER -> "possibility"
RelationCase(b) ==
    CASE b \in {NUL, ","} -> "done"
      [] b = "|" -> "pipe"
      [] OTHER -> "possibility"

\* switch of parsePossibility
PossibilityCase_tab(b) ==
    CASE b \in {SP, TAB} -> "controllers"
      [] b \in {",", "|", NUL} -> "out"
      [] OTHER -> "name"
PossibilityCase_commaControllers(b) ==
    CASE b \in {SP, ","} -> "controllers"
      [] b \in {"|", NUL} -> "out"
      [] OTHER -> "name"
PossibilityCase(b) ==
    CASE b = SP -> "controllers"
      [] b \in {",", "|", NUL} -> "out"
      [] OTHER -> "name"

\* switch of parsePossibilityControllers
ControllersCase_lax(b) ==
    CASE b \in {",", "|", NUL, ")", "]"} -> "out"
      [] b = "(" -> "version"
      [] b = "[" -> "arch"
      [] OTHER -> "garbage"
ControllersCase(b) ==
    CASE b \in {",", "|", NUL} -> "out"
      [] b = "(" -> "version"
      [] b = "[" -> "arch"
      [] OTHER -> "garbage"

\* possi.Version != nil
VersionIsSet_never(p) == FALSE
VersionIsSet(p) == ~p.Version.nil

\* len(possi.Arches.Arches) != 0
ArchIsSet_shared(p) == Len(p.Arches.Arches) # 0 \/ ~p.Version.nil
ArchIsSet(p) == Len(p.Arches.Arches) # 0

\* switch operator { case ">=", "<=", "<<", ">>" }
KnownOperator_lax(op) == op \in {<<">", "=">>, <<"<", "=">>, <<"<", "<">>, <<">", ">">>, <<"=", ">">>, <<"~", ">">>}
KnownOperator(op) == op \in {<<">", "=">>, <<"<", "=">>, <<"<", "<">>, <<">", ">">>}

\* switch of parsePossibilityNumber
NumberCase_anyClose(b) ==
    CASE b = NUL -> "eof"
      [] b \in {")", "]"} -> "close"
      [] OTHER -> "number"
NumberCase(b) ==
    CASE b = NUL -> "eof"
      [] b = ")" -> "close"
      [] OTHER -> "number"

\* peek == '!' at the head of parsePossibilityArchs
IsNegation_never(b) == FALSE
IsNegation(b) == b = "!"

\* switch of the loop of parsePossibilityArchs
ArchsCase_eofCloses(b) ==
    CASE b \in {NUL, "]"} -> "close"
      [] OTHER -> "arch"
ArchsCase(b) ==
    CASE b = NUL -> "eof"
      [] b = "]" -> "close"
      [] OTHER -> "arch"

\* switch of parsePossibilityArch
ArchCase_perEntry(b) ==
    CASE b = NUL -> "eof"
      [] b \in {"]", SP} -> "token"
      [] OTHER -> "append"
ArchCase(b) ==
    CASE b = NUL -> "eof"
      [] b = "!" -> "negation"
      [] b \in {"]", SP} -> "token"
      [] OTHER -> "append"

-----------------------------------------------------------------------------
(* Inputs *)

RECURSIVE Strs(_, _)
Strs(alphabet, n) ==
    IF n = 0 THEN {<<>>}
    ELSE LET shorter == Strs(alphabet, n - 1)
         IN  shorter \cup {Append(s, c) : s \in shorter, c \in alphabet}

\* every short input over the bytes that matter between terms
RawAlphabet == {"a", SP, TAB, ",", "|", "(", "[", NUL, xC3}

RawInputs == Strs(RawAlphabet, MaxRaw)

TailAlphabet ==
    {"a", SP, TAB, ",", "|", "(", ")", "[", "]", "!", "=", ">", "<", NUL, xC3}

\* a term opened in a given way, followed by every short tail
Prefixes ==
    { <<"a", SP>>,
      <<"a", SP, "(">>,
      <<"a", SP, "(", ">">>,
      <<"a", SP, "(", "=", "1">>,
      <<"a", SP, "(", "=", "1", ")">>,
      <<"a", SP, "[">>,
      <<"a", SP, "[", "!">>,
      <<"a", SP, "[", "i">>,
      <<"a", SP, "[", "i", "]">>,
      <<"a", SP, "[", "]">>,
      <<"a", SP, "[", "!", "]">> }

PrefixInputs == {p \o t : p \in Prefixes, t \in Strs(TailAlphabet, MaxTail)}

\* a name, a space, then up to MaxToks blocks and separators
Tokens ==
    { <<SP>>, <<",">>, <<"b">>,
      <<"(", ">", "=", SP, "1", ")">>,
      <<"(", "<", "<", "2", ")">>,
      <<"(", "~", ">", SP, "1", ")">>,
      <<"(", "=", SP, xC3, xA9, ")">>,
      <<"[", "i", "]">>,
      <<"[", xC3, xA9, "]">>,
      <<"[", "!", "i", SP, "j", "]">>,
      <<"[", "]">>,
      <<"[", "!", "]">> }

RECURSIVE Concat(_)
Concat(ss) == IF ss = <<>> THEN <<>> ELSE Head(ss) \o Concat(Tail(ss))

TokInputs == {<<"a", SP>> \o Concat(ts) : ts \in Strs(Tokens, MaxToks)}

\* names, separators and blanks only
ListAlphabet == {"a", "b", ",", "|", SP, TAB}

ListInputs == Strs(ListAlphabet, MaxList)

\* up to MaxGroups comma-separated groups of one or two piped names
ListNames == {<<"a">>, <<"b", "c">>}

ListGroups == {<<x>> : x \in ListNames} \cup {<<x, y>> : x \in ListNames, y \in ListNames}

RECURSIVE Join(_, _)
Join(ss, sep) ==
    IF Len(ss) <= 1 THEN Concat(ss) ELSE Head(ss) \o sep \o Join(Tail(ss), sep)

Blanks == {<<>>, <<SP>>}

GroupInputs ==
    { Join([g \in DOMAIN gs |-> Join(gs[g], pre \o <<"|">> \o post)],
           pre \o <<",">> \o post) :
        gs \in Strs(ListGroups, MaxGroups) \ {<<>>},
        pre \in Blanks, post \in Blanks }

Inputs ==
    RawInputs \cup PrefixInputs \cup TokInputs \cup ListInputs \cup GroupInputs

-----------------------------------------------------------------------------
(* Parse *)

Init ==
    /\ input \in {[Data |-> d, Index |-> 0] : d \in Inputs}
    /\ pc = "Parse"
    /\ dep = NilDepedency
    /\ relation = NewRelation
    /\ possi = NewPossibility
    /\ version = NilVersion
    /\ arch = <<>>
    /\ returned = [dep |-> NilDepedency, err |-> NoError]

\* return nil, err: every caller hands the error up unchanged
Fail_partial(e) ==
    /\ pc' = "done"
    /\ returned' = [dep |-> dep, err |-> e]
Fail(e) ==
    /\ pc' = "done"
    /\ returned' = [dep |-> NilDepedency, err |-> e]

\* Parse up to the loop of parseDependency
Parse ==
    /\ pc = "Parse"
    /\ dep' = Depedency(<<>>)
    /\ input' = eatWhitespace(input)
    /\ pc' = "parseDependency"
    /\ UNCHANGED <<relation, possi, version, arch, returned>>

\* one iteration of the loop of parseDependency
parseDependency ==
    /\ pc = "parseDependency"
    /\ LET c == DependencyCase(Peek(input))
       IN  \/ /\ c = "eof"
              /\ pc' = "done"
              /\ returned' = [dep |-> dep, err |-> NoError]
              /\ UNCHANGED input
           \/ /\ c = "comma"
              /\ input' = eatWhitespace(Advance(input))
              /\ UNCHANGED <<pc, returned>>
           \/ /\ c = "relation"
              /\ pc' = "parseRelationEnter"
              /\ UNCHANGED <<input, returned>>
    /\ UNCHANGED <<dep, relation, possi, version, arch>>

parseRelationEnter ==
    /\ pc = "parseRelationEnter"
    /\ input' = eatWhitespace(input)
    /\ relation' = NewRelation
    /\ pc' = "parseRelation"
    /\ UNCHANGED <<dep, possi, version, arch, returned>>

\* one iteration of the loop of parseRelation
parseRelation ==
    /\ pc = "parseRelation"
    /\ LET c == RelationCase(Peek(input))
       IN  \/ /\ c = "done"
              /\ dep' = [dep EXCEPT !.Relations = append(@, relation)]
              /\ pc' = "parseDependency"
              /\ UNCHANGED input
           \/ /\ c = "pipe"
              /\ input' = eatWhitespace(Advance(input))
              /\ UNCHANGED <<pc, dep>>
           \/ /\ c = "possibility"
              /\ pc' = "parsePossibilityEnter"
              /\ UNCHANGED <<input, dep>>
    /\ UNCHANGED <<relation, possi, version, arch, returned>>

parsePossibilityEnter ==
    /\ pc = "parsePossibilityEnter"
    /\ input' = eatWhitespace(input)
    /\ possi' = NewPossibility
    /\ pc' = "parsePossibility"
    /\ UNCHANGED <<dep, relation, version, arch, returned>>

\* one iteration of the loop of parsePossibility
parsePossibility ==
    /\ pc = "parsePossibility"
    /\ LET c == PossibilityCase(Peek(input))
       IN  \/ /\ c = "controllers"
              /\ pc' = "parsePossibilityControllers"
              /\ UNCHANGED <<input, possi, relation, returned>>
           \/ /\ c = "out"
              /\ IF possi.Name = <<>>
                 THEN /\ Fail(ErrNoName)
                      /\ UNCHANGED relation
                 ELSE /\ relation' = [relation EXCEPT
                                        !.Possibilities = append(@, possi)]
                      /\ pc' = "parseRelation"
                      /\ UNCHANGED returned
              /\ UNCHANGED <<input, possi>>
           \/ /\ c = "name"
              /\ possi' = [possi EXCEPT !.Name = @ \o string(Next(input).chr)]
              /\ input' = Next(input).input
              /\ UNCHANGED <<pc, relation, returned>>
    /\ UNCHANGED <<dep, version, arch>>

\* one iteration of the loop of parsePossibilityControllers
parsePossibilityControllers ==
    /\ pc = "parsePossibilityControllers"
    /\ input' = eatWhitespace(input)
    /\ LET peek == Peek(input')
           c == ControllersCase(peek)
       IN  \/ /\ c = "out"
              /\ pc' = "parsePossibility"
              /\ UNCHANGED returned
           \/ /\ c = "version"
              /\ IF VersionIsSet(possi)
                 THEN Fail(ErrDupVersion)
                 ELSE /\ pc' = "parsePossibilityVersion"
                      /\ UNCHANGED returned
           \/ /\ c = "arch"
              /\ IF ArchIsSet(possi)
                 THEN Fail(ErrDupArch)
                 ELSE /\ pc' = "parsePossibilityArchsEnter"
                      /\ UNCHANGED returned
           \/ /\ c = "garbage"
              /\ Fail(ErrTrailing(peek))
    /\ UNCHANGED <<dep, relation, possi, version, arch>>

\* parsePossibilityVersion up to the call of parsePossibilityOperator
parsePossibilityVersion ==
    /\ pc = "parsePossibilityVersion"
    /\ input' = Advance(eatWhitespace(input))
    /\ version' = EmptyVersionRelation
    /\ pc' = "parsePossibilityOperator"
    /\ UNCHANGED <<dep, relation, possi, arch, returned>>

parsePossibilityOperator ==
    /\ pc = "parsePossibilityOperator"
    /\ LET first == Next(eatWhitespace(input))
           leader == first.chr
           second == Next(first.input)
           secondary == second.chr
           operator == string(leader) \o string(secondary)
       IN  IF leader = "="
           THEN /\ input' = first.input
                /\ version' = [version EXCEPT !.Operator = <<"=">>]
                /\ pc' = "parsePossibilityNumberEnter"
                /\ UNCHANGED returned
           ELSE /\ input' = second.input
                /\ IF leader = NUL \/ secondary = NUL
                   THEN /\ Fail(ErrOperatorEOF)
                        /\ UNCHANGED version
                   ELSE IF KnownOperator(operator)
                   THEN /\ version' = [version EXCEPT !.Operator = operator]
                        /\ pc' = "parsePossibilityNumberEnter"
                        /\ UNCHANGED returned
                   ELSE /\ Fail(ErrUnknownOperator(operator))
                        /\ UNCHANGED version
    /\ UNCHANGED <<dep, relation, possi, arch>>

parsePossibilityNumberEnter ==
    /\ pc = "parsePossibilityNumberEnter"
    /\ input' = eatWhitespace(input)
    /\ pc' = "parsePossibilityNumber"
    /\ UNCHANGED <<dep, relation, possi, version, arch, returned>>

\* one iteration of the loop of parsePossibilityNumber
parsePossibilityNumber ==
    /\ pc = "parsePossibilityNumber"
    /\ LET c == NumberCase(Peek(input))
       IN  \/ /\ c = "eof"
              /\ Fail(ErrNumberEOF)
              /\ UNCHANGED <<input, version>>
           \/ /\ c = "close"
              /\ pc' = "parsePossibilityVersionClose"
              /\ UNCHANGED <<input, version, returned>>
           \/ /\ c = "number"
              /\ version' = [version EXCEPT !.Number = @ \o string(Next(input).chr)]
              /\ input' = Next(input).input
              /\ UNCHANGED <<pc, returned>>
    /\ UNCHANGED <<dep, relation, possi, arch>>

\* parsePossibilityVersion after parsePossibilityNumber returned
parsePossibilityVersionClose ==
    /\ pc = "parsePossibilityVersionClose"
    /\ input' = Advance(input)
    /\ possi' = [possi EXCEPT !.Version = version]
    /\ pc' = "parsePossibilityControllers"
    /\ UNCHANGED <<dep, relation, version, arch, returned>>

\* parsePossibilityArchs up to its loop
parsePossibilityArchsEnter ==
    /\ pc = "parsePossibilityArchsEnter"
    /\ LET opened == Advance(eatWhitespace(input))
       IN  IF IsNegation(Peek(opened))
           THEN /\ input' = Advance(opened)
                /\ possi' = [possi EXCEPT !.Arches.Not = TRUE]
           ELSE /\ input' = opened
                /\ UNCHANGED possi
    /\ pc' = "parsePossibilityArchs"
    /\ UNCHANGED <<dep, relation, version, arch, returned>>

\* one iteration of the loop of parsePossibilityArchs
parsePossibilityArchs ==
    /\ pc = "parsePossibilityArchs"
    /\ LET c == ArchsCase(Peek(input))
       IN  \/ /\ c = "eof"
              /\ Fail(ErrArchEOF)
              /\ UNCHANGED input
           \/ /\ c = "close"
              /\ input' = Advance(input)
              /\ pc' = "parsePossibilityControllers"
              /\ UNCHANGED returned
           \/ /\ c = "arch"
              /\ pc' = "parsePossibilityArchEnter"
              /\ UNCHANGED <<input, returned>>
    /\ UNCHANGED <<dep, relation, possi, version, arch>>

parsePossibilityArchEnter ==
    /\ pc = "parsePossibilityArchEnter"
    /\ input' = eatWhitespace(input)
    /\ arch' = <<>>
    /\ pc' = "parsePossibilityArch"
    /\ UNCHANGED <<dep, relation, possi, version, returned>>

\* one iteration of the loop of parsePossibilityArch
parsePossibilityArch ==
    /\ pc = "parsePossibilityArch"
    /\ LET c == ArchCase(Peek(input))
       IN  \/ /\ c = "eof"
              /\ Fail(ErrArchEOF)
              /\ UNCHANGED <<input, possi, arch>>
           \/ /\ c = "negation"
              /\ Fail(ErrNegation)
              /\ UNCHANGED <<input, possi, arch>>
           \/ /\ c = "token"
              /\ \E r \in ParseArch(arch) :
                    IF r.err # NoError
                    THEN /\ Fail(r.err)
                         /\ UNCHANGED possi
                    ELSE /\ possi' = [possi EXCEPT
                                        !.Arches.Arches = append(@, r.arch)]
                         /\ pc' = "parsePossibilityArchs"
                         /\ UNCHANGED returned
              /\ UNCHANGED <<input, arch>>
           \/ /\ c = "append"
              /\ arch' = arch \o string(Next(input).chr)
              /\ input' = Next(input).input
              /\ UNCHANGED <<pc, possi, returned>>
    /\ UNCHANGED <<dep, relation, version>>

Next_ ==
    \/ Parse
    \/ parseDependency
    \/ parseRelationEnter
    \/ parseRelation
    \/ parsePossibilityEnter
    \/ parsePossibility
    \/ parsePossibilityControllers
    \/ parsePossibilityVersion
    \/ parsePossibilityOperator
    \/ parsePossibilityNumberEnter
    \/ parsePossibilityNumber
    \/ parsePossibilityVersionClose
    \/ parsePossibilityArchsEnter
    \/ parsePossibilityArchs
    \/ parsePossibilityArchEnter
    \/ parsePossibilityArch

Spec == Init /\ [][Next_]_vars

\* Parse runs to its return: a call that can take a step takes it
LiveSpec == Init /\ [][Next_]_vars /\ WF_vars(Next_)

-----------------------------------------------------------------------------
(* Vocabulary of the properties *)

Data == input.Data

Done == pc = "done"

Succeeded == Done /\ returned.err = NoError /\ ~returned.dep.nil

Failed(e) == Done /\ returned = [dep |-> NilDepedency, err |-> e]

Relations == returned.dep.Relations

Range(s) == {s[k] : k \in DOMAIN s}

\* the bytes the grammar calls whitespace
Blank == {SP, TAB, "\r", "\n"}

\* the first position at or after k (1-based) whose byte is not whitespace
RECURSIVE SkipBlanks(_, _)
SkipBlanks(data, k) ==
    IF k <= Len(data) /\ data[k] \in Blank THEN SkipBlanks(data, k + 1) ELSE k

\* the byte at position k, the end sentinel past the end
ByteAt(data, k) == IF k \in DOMAIN data THEN data[k] ELSE NUL

\* the first byte at or after position k that is not whitespace
FirstNonWs(data, k) == ByteAt(data, SkipBlanks(data, k))

\* a name as the documented examples write it
PlainName(s) ==
    /\ s # <<>>
    /\ Range(s) \cap (Blank \cup {",", "|", "(", ")", "[", "]", NUL}) = {}

\* a term that carries nothing but its name
PlainPossibility(name) == [NewPossibility EXCEPT !.Name = name]

\* the string that byte-by-byte accumulation builds from the input bytes s
RECURSIVE Stored(_)
Stored(s) == IF s = <<>> THEN <<>> ELSE string(Head(s)) \o Stored(Tail(s))

\* no byte above 0x7F
IsAscii(s) == Range(s) \cap {xC3, xA9} = {}

\* Data[i] = "[" opens a block, Data[j] = "]" is the first "]" after it, and
\* the bytes in between hold no end sentinel and no "!" after the first byte
ArchBlockAt(i, j) ==
    /\ i < j /\ j <= Len(Data)
    /\ Data[i] = "[" /\ Data[j] = "]"
    /\ \A k \in (i + 1)..(j - 1) : Data[k] \notin {"]", NUL}
    /\ \A k \in (i + 2)..(j - 1) : Data[k] # "!"

\* Data starts with a plain name and a space that ends at position i
NameThenSpace(i) ==
    /\ i \in 2..Len(Data)
    /\ Data[i] = SP
    /\ PlainName(SubSeq(Data, 1, i - 1))

-----------------------------------------------------------------------------
\* C1: every Relation of a Dependency returned by a successful Parse holds at
\* least one Possibility, for every input string.
C1_RelationNonEmpty ==
    Succeeded =>
        \A r \in DOMAIN Relations : Len(Relations[r].Possibilities) >= 1

\* C2: when the Controllers parser meets a "[" on a term whose first
\* architecture block was parsed completely (whatever it contained, "[]" and
\* "[!]" included), Parse fails with the duplicate-architecture error.
C2_DuplicateArch ==
    \A i \in DOMAIN Data : \A j \in DOMAIN Data :
        ( /\ Done
          /\ NameThenSpace(i)
          /\ ArchBlockAt(i + 1, j)
          /\ input.Index >= j
          /\ FirstNonWs(Data, j + 1) = "[" )
        => Failed(ErrDupArch)

\* C3: a "(" met by the Controllers parser on a term whose version constraint
\* is already set makes Parse fail with the duplicate-version error, and a
\* version constraint once set on a term is never replaced.
C3_DuplicateVersion ==
    [][ /\ ( /\ pc = "parsePossibilityControllers"
             /\ FirstNonWs(Data, input.Index + 1) = "("
             /\ ~possi.Version.nil )
           => ( /\ pc' = "done"
                /\ returned' = [dep |-> NilDepedency, err |-> ErrDupVersion] )
        /\ ( ~possi.Version.nil /\ possi'.Version # possi.Version )
           => pc = "parsePossibilityEnter" ]_vars

\* a second version block, after an architecture block, was refused
C3_Witness ==
    /\ Failed(ErrDupVersion)
    /\ ~possi.Version.nil
    /\ Len(possi.Arches.Arches) > 0
    /\ Peek(input) = "("

-----------------------------------------------------------------------------
(* Reference reading of lists of names, by splitting instead of scanning *)

FirstIndex(s, b) == CHOOSE k \in DOMAIN s : s[k] = b /\ \A m \in 1..(k - 1) : s[m] # b

RECURSIVE SplitOn(_, _)
SplitOn(s, sep) ==
    IF sep \notin Range(s) THEN <<s>>
    ELSE LET k == FirstIndex(s, sep)
         IN  <<SubSeq(s, 1, k - 1)>> \o SplitOn(SubSeq(s, k + 1, Len(s)), sep)

RECURSIVE TrimSP(_)
TrimSP(s) ==
    IF s = <<>> THEN s
    ELSE IF Head(s) = SP THEN TrimSP(Tail(s))
    ELSE IF s[Len(s)] = SP THEN TrimSP(SubSeq(s, 1, Len(s) - 1))
    ELSE s

\* the names of the input, group by group
GroupsOf(data) ==
    LET groups == SplitOn(data, ",")
    IN  [g \in DOMAIN groups |->
            LET alts == SplitOn(groups[g], "|")
            IN  [a \in DOMAIN alts |-> TrimSP(alts[a])]]

IsGroupList(data) ==
    \A g \in DOMAIN GroupsOf(data) :
        \A a \in DOMAIN GroupsOf(data)[g] : PlainName(GroupsOf(data)[g][a])

RelationOfNames(names) ==
    [Possibilities |-> [a \in DOMAIN names |-> PlainPossibility(names[a])]]

\* C4: k >= 1 comma-separated groups of m >= 1 pipe-separated plain names,
\* with optional spaces around the separators, parse to exactly k Relations
\* in input order, the i-th holding the names of the i-th group in input
\* order, each without version constraint and with an empty, non-negated
\* architecture set.
C4_GroupsOfNames ==
    (Done /\ IsGroupList(Data)) =>
        /\ Succeeded
        /\ Relations =
              [g \in DOMAIN GroupsOf(Data) |-> RelationOfNames(GroupsOf(Data)[g])]

\* The same for ASCII input: the Relations are those of the reference split.
GroupsOfAsciiNames ==
    (Done /\ IsGroupList(Data) /\ IsAscii(Data)) =>
        /\ Succeeded
        /\ Relations =
              [g \in DOMAIN GroupsOf(Data) |-> RelationOfNames(GroupsOf(Data)[g])]

\* two groups, the first of two names, were returned
GroupsOfAsciiNames_Witness ==
    /\ Succeeded
    /\ IsGroupList(Data)
    /\ Len(Relations) = 2
    /\ Len(Relations[1].Possibilities) = 2
    /\ Relations[1].Possibilities[1].Name # Relations[1].Possibilities[2].Name
    /\ SP \in Range(Data)

\* the non-empty pieces between commas, blanks stripped
NamesBetweenCommas(data) ==
    LET pieces == SplitOn(data, ",")
        NonEmpty(piece) == TrimSP(piece) # <<>>
        kept == SelectSeq(pieces, NonEmpty)
    IN  [n \in DOMAIN kept |-> TrimSP(kept[n])]

\* C5: commas never produce a Relation: an input of commas and whitespace
\* only parses to zero Relations, and an input of plain names separated by
\* any number of commas (leading, trailing or consecutive) parses to one
\* Relation per name, in order, without error: the result is determined by
\* the sequence of names alone (each name as accumulation stores it).
C5_CommasOnlySeparate ==
    /\ (Done /\ \A k \in DOMAIN Data : Data[k] \in Blank \cup {","})
           => (Succeeded /\ Relations = <<>>)
    /\ (Done /\ \A n \in DOMAIN NamesBetweenCommas(Data) :
                    PlainName(NamesBetweenCommas(Data)[n]))
           => ( /\ Succeeded
                /\ Relations = [n \in DOMAIN NamesBetweenCommas(Data) |->
                                   RelationOfNames(
                                       <<Stored(NamesBetweenCommas(Data)[n])>>)] )

\* two different names and an extra comma
C5_Witness ==
    /\ Succeeded
    /\ Len(Relations) = 2
    /\ Len(NamesBetweenCommas(Data)) = 2
    /\ \A n \in 1..2 : PlainName(NamesBetweenCommas(Data)[n])
    /\ NamesBetweenCommas(Data)[1] # NamesBetweenCommas(Data)[2]
    /\ Len(SplitOn(Data, ",")) = 3

-----------------------------------------------------------------------------
(* Reference reading of "NAME (OP NUM)" *)

Operators == {<<"=">>, <<">", "=">>, <<"<", "=">>, <<"<", "<">>, <<">", ">">>}

\* position of the space that ends the leading name, 0 if there is none
NameEnd ==
    IF SP \in Range(Data) /\ NameThenSpace(FirstIndex(Data, SP))
    THEN FirstIndex(Data, SP) ELSE 0

LeadingName == SubSeq(Data, 1, NameEnd - 1)

\* the operator written at position o
OperatorAt(o) ==
    IF ByteAt(Data, o) = "=" THEN <<"=">> ELSE <<ByteAt(Data, o), ByteAt(Data, o + 1)>>

\* Data[o..c] is "(OP NUM)": OP right after "(", optional whitespace, NUM up
\* to the first ")"
VersionBlockAt(o, c) ==
    /\ o < c /\ c <= Len(Data)
    /\ Data[o] = "(" /\ Data[c] = ")"
    /\ OperatorAt(o + 1) \in Operators
    /\ o + Len(OperatorAt(o + 1)) < c
    /\ \A k \in (o + 1)..(c - 1) : Data[k] \notin {")", NUL}

VersionAt(o, c) ==
    [nil |-> FALSE,
     Operator |-> OperatorAt(o + 1),
     Number |-> SubSeq(Data, SkipBlanks(Data, o + 1 + Len(OperatorAt(o + 1))), c - 1)]

\* the input is exactly "NAME (OP NUM)"
IsNameVersion == NameEnd > 0 /\ VersionBlockAt(NameEnd + 1, Len(Data))

AllPossibilities ==
    UNION { Range(Relations[r].Possibilities) : r \in DOMAIN Relations }

\* the operator string that names the two bytes in the error
OperatorString(leader, secondary) == Stored(<<leader, secondary>>)

\* the single Possibility of the result carries version constraint v
OneConstraint(v) ==
    /\ Succeeded
    /\ Len(Relations) = 1
    /\ Len(Relations[1].Possibilities) = 1
    /\ Relations[1].Possibilities[1].Version = v

\* a pair of operator bytes that is neither "=..." nor a two-byte operator
\* is refused with the unknown-operator error naming the pair
UnknownOperatorRefused ==
    LET o == SkipBlanks(Data, input.Index + 1)
        leader == ByteAt(Data, o)
        secondary == ByteAt(Data, o + 1)
    IN  ( /\ pc = "parsePossibilityOperator"
          /\ leader \notin {"=", NUL}
          /\ secondary # NUL
          /\ <<leader, secondary>> \notin Operators )
        => ( /\ pc' = "done"
             /\ returned' =
                  [dep |-> NilDepedency,
                   err |-> ErrUnknownOperator(OperatorString(leader, secondary))] )

\* C6: every version constraint returned has one of the five operators; an
\* input "NAME (OP NUM)" yields the constraint {OP, NUM} with NUM the bytes
\* from the first non-whitespace byte after OP up to the closing ")", copied
\* verbatim; and when the two bytes read as the operator are present, the
\* first is not "=" and the pair is not a two-byte operator, Parse fails with
\* the unknown-operator error naming the pair.
C6_VersionConstraint ==
    /\ [](Succeeded =>
            \A q \in AllPossibilities :
                q.Version.nil \/ q.Version.Operator \in Operators)
    /\ []((Done /\ IsNameVersion) =>
            OneConstraint(VersionAt(NameEnd + 1, Len(Data))))
    /\ [][UnknownOperatorRefused]_vars

\* The same with NUM as byte-by-byte accumulation stores it.
VersionConstraintStored ==
    /\ [](Succeeded =>
            \A q \in AllPossibilities :
                q.Version.nil \/ q.Version.Operator \in Operators)
    /\ []((Done /\ IsNameVersion) =>
            OneConstraint([VersionAt(NameEnd + 1, Len(Data)) EXCEPT
                             !.Number = Stored(@)]))
    /\ [][UnknownOperatorRefused]_vars

\* "NAME (OP NUM)" with a two-byte operator and whitespace before NUM parsed
VersionConstraintStored_Witness ==
    /\ Succeeded
    /\ IsNameVersion
    /\ Len(OperatorAt(NameEnd + 2)) = 2
    /\ Data[NameEnd + 4] = SP
    /\ VersionAt(NameEnd + 1, Len(Data)).Number # <<>>

\* an unknown two-byte operator was refused
UnknownOperatorRefused_Witness ==
    /\ Done
    /\ returned.err = ErrUnknownOperator(<<"~", ">">>)

-----------------------------------------------------------------------------
(* Reference reading of "NAME [ARCH ARCH ...]" *)

\* the bytes between "[" at position o and "]" at position c
ArchBody(o, c) == SubSeq(Data, o + 1, c - 1)

NegatedAt(o, c) == ArchBody(o, c) # <<>> /\ Head(ArchBody(o, c)) = "!"

\* the tokens of the block, split at single spaces
ArchTokensAt(o, c) ==
    LET list == IF NegatedAt(o, c) THEN Tail(ArchBody(o, c)) ELSE ArchBody(o, c)
    IN  IF list = <<>> THEN <<>> ELSE SplitOn(list, SP)

\* Data[o..c] is "[", an optional "!", tokens separated by single spaces, "]"
ArchListAt(o, c) ==
    /\ ArchBlockAt(o, c)
    /\ \A t \in DOMAIN ArchTokensAt(o, c) :
          /\ ArchTokensAt(o, c)[t] # <<>>
          /\ Range(ArchTokensAt(o, c)[t]) \cap Blank = {}

\* the set of the block: each token as it is accumulated and handed to the
\* validator, which returns the architecture of that token
ArchSetAt(o, c) ==
    [Arches |-> [t \in DOMAIN ArchTokensAt(o, c) |-> Stored(ArchTokensAt(o, c)[t])],
     Not |-> NegatedAt(o, c)]

\* the input is exactly "NAME [ARCH ARCH ...]"
IsNameArchs == NameEnd > 0 /\ ArchListAt(NameEnd + 1, Len(Data))

\* the validator refused a token
ArchRefused == Done /\ returned.err.msg = ErrInvalidArch(<<>>).msg

\* C7: for "NAME [ARCH ARCH ...]" whose tokens the validator accepts, Parse
\* returns one Possibility whose architecture set lists the tokens in input
\* order, once each, negated exactly when "!" directly follows "["; the
\* empty block "[]" gives an empty, non-negated set.
C7_ArchBlock ==
    (Done /\ IsNameArchs /\ ~ArchRefused) =>
        /\ Succeeded
        /\ Relations =
             << [Possibilities |->
                   << [PlainPossibility(Stored(LeadingName)) EXCEPT
                         !.Arches = ArchSetAt(NameEnd + 1, Len(Data))] >>] >>

\* a negated block of two different tokens was parsed
C7_Witness ==
    /\ Succeeded
    /\ IsNameArchs
    /\ NegatedAt(NameEnd + 1, Len(Data))
    /\ Len(ArchTokensAt(NameEnd + 1, Len(Data))) = 2
    /\ ArchTokensAt(NameEnd + 1, Len(Data))[1] # ArchTokensAt(NameEnd + 1, Len(Data))[2]

\* the empty block was parsed
C7_WitnessEmpty ==
    /\ Succeeded
    /\ IsNameArchs
    /\ ArchBody(NameEnd + 1, Len(Data)) = <<>>

-----------------------------------------------------------------------------
(* Negation inside an architecture block *)

\* position of the "[" that follows the leading name and its blanks, else 0
FirstBlockOpen ==
    IF NameEnd > 0 /\ FirstNonWs(Data, NameEnd) = "["
    THEN SkipBlanks(Data, NameEnd) ELSE 0

\* Data[p] is a "!" inside the block opened at FirstBlockOpen, not directly
\* after the "["
MisplacedNegation(p) ==
    /\ FirstBlockOpen > 0
    /\ p \in (FirstBlockOpen + 2)..Len(Data)
    /\ Data[p] = "!"
    /\ \A k \in (FirstBlockOpen + 1)..(p - 1) : Data[k] \notin {"]", NUL}

\* C8 as stated: a "!" anywhere in an architecture block other than directly
\* after "[" makes Parse fail with the negation-placement error.
C8_NegationAlwaysRejected ==
    (Done /\ \E p \in DOMAIN Data : MisplacedNegation(p)) => Failed(ErrNegation)

\* C8 amended: a "!" anywhere in an architecture block other than directly
\* after "[" makes Parse return no Dependency; the error is the
\* negation-placement error, unless the validator refused a token of the
\* block that precedes the "!", and then it is the validator's error.
C8_NegationRejected ==
    \A p \in DOMAIN Data :
        (Done /\ MisplacedNegation(p)) =>
            \/ Failed(ErrNegation)
            \/ ArchRefused /\ returned.dep.nil /\ input.Index < p - 1

\* a "!" at the start of a later token was refused
C8_Witness ==
    /\ Failed(ErrNegation)
    /\ \E p \in DOMAIN Data :
          /\ MisplacedNegation(p)
          /\ Data[p - 1] = SP
          /\ Len(possi.Arches.Arches) = 1
          /\ input.Index = p - 1

-----------------------------------------------------------------------------
(* Both controllers on one term *)

\* the first position at or after k that holds byte b, 0 if there is none
FirstFrom(b, k) ==
    IF \E m \in k..Len(Data) : Data[m] = b
    THEN CHOOSE m \in k..Len(Data) :
            Data[m] = b /\ \A n \in k..(m - 1) : Data[n] # b
    ELSE 0

\* "NAME V A": the version block ends at the first ")"
VersionEnd == FirstFrom(")", NameEnd + 1)

IsNameVersionArchs ==
    /\ NameEnd > 0
    /\ VersionBlockAt(NameEnd + 1, VersionEnd)
    /\ ByteAt(Data, VersionEnd + 1) = SP
    /\ ArchListAt(VersionEnd + 2, Len(Data))
    /\ ArchTokensAt(VersionEnd + 2, Len(Data)) # <<>>

\* "NAME A V": the architecture block ends at the first "]"
ArchsEnd == FirstFrom("]", NameEnd + 1)

IsNameArchsVersion ==
    /\ NameEnd > 0
    /\ ArchListAt(NameEnd + 1, ArchsEnd)
    /\ ArchTokensAt(NameEnd + 1, ArchsEnd) # <<>>
    /\ ByteAt(Data, ArchsEnd + 1) = SP
    /\ VersionBlockAt(ArchsEnd + 2, Len(Data))

\* one Relation of one Possibility with name n, constraint v and set a, the
\* name and the number as accumulation stores them
OneTerm(n, v, a) ==
    << [Possibilities |->
          << [PlainPossibility(Stored(n)) EXCEPT
                !.Version = [v EXCEPT !.Number = Stored(@)],
                !.Arches = a] >>] >>

\* C9: "N V A" and "N A V" both succeed (the validator accepting the tokens
\* of A) and return the same value, one Relation of one Possibility with the
\* constraint of V and the architecture set of A.
C9_ControllersCommute ==
    /\ (Done /\ IsNameVersionArchs /\ ~ArchRefused) =>
          /\ Succeeded
          /\ Relations = OneTerm(LeadingName,
                                 VersionAt(NameEnd + 1, VersionEnd),
                                 ArchSetAt(VersionEnd + 2, Len(Data)))
    /\ (Done /\ IsNameArchsVersion /\ ~ArchRefused) =>
          /\ Succeeded
          /\ Relations = OneTerm(LeadingName,
                                 VersionAt(ArchsEnd + 2, Len(Data)),
                                 ArchSetAt(NameEnd + 1, ArchsEnd))

\* the version block came first
C9_Witness == Succeeded /\ IsNameVersionArchs

\* the architecture block came first
C9_WitnessSwapped == Succeeded /\ IsNameArchsVersion

-----------------------------------------------------------------------------
(* After the space that follows a name *)

AfterSpace == {"(", "[", ",", "|", NUL}

\* C10: where the Controllers parser looks (after the space that follows a
\* name, or after a completed controller, whitespace skipped), a byte other
\* than "(", "[", comma, pipe or end-of-input makes Parse fail with the
\* unexpected-character error reporting that byte; the Controllers parser
\* is entered only on a space after name bytes; so "NAME x..." fails, and no
\* returned name holds a space.
C10_OnlyControllersAfterSpace ==
    /\ [][ LET b == FirstNonWs(Data, input.Index + 1)
           IN  /\ (pc = "parsePossibilityControllers" /\ b \notin AfterSpace)
                     => ( /\ pc' = "done"
                          /\ returned' =
                               [dep |-> NilDepedency, err |-> ErrTrailing(b)] )
               /\ (pc = "parsePossibility" /\ pc' = "parsePossibilityControllers")
                     => (Peek(input) = SP /\ possi.Name # <<>>) ]_vars
    /\ []((Done /\ NameEnd > 0 /\ FirstNonWs(Data, NameEnd) \notin AfterSpace)
             => Failed(ErrTrailing(FirstNonWs(Data, NameEnd))))
    /\ [](Succeeded => \A q \in AllPossibilities : SP \notin Range(q.Name))

\* a bare token after a completed version block was refused
C10_Witness ==
    /\ Failed(ErrTrailing("b"))
    /\ ~possi.Version.nil
    /\ NameEnd > 0

\* a bare token directly after the name's space was refused
C10_WitnessDirect ==
    /\ Failed(ErrTrailing("b"))
    /\ NameEnd > 0
    /\ FirstNonWs(Data, NameEnd) = "b"

-----------------------------------------------------------------------------
(* The result of Parse *)

\* the messages of the errors each grammar level raises itself
RaisedBy(level) ==
    CASE level = "parsePossibility" -> {ErrNoName.msg}
      [] level = "parsePossibilityControllers" ->
            {ErrDupVersion.msg, ErrDupArch.msg, ErrTrailing(NUL).msg}
      [] level = "parsePossibilityOperator" ->
            {ErrOperatorEOF.msg, ErrUnknownOperator(<<>>).msg}
      [] level = "parsePossibilityNumber" -> {ErrNumberEOF.msg}
      [] level = "parsePossibilityArchs" -> {ErrArchEOF.msg}
      [] level = "parsePossibilityArch" ->
            {ErrArchEOF.msg, ErrNegation.msg, ErrInvalidArch(<<>>).msg}
      [] OTHER -> {}

\* C11: Parse returns either a Dependency and no error, or an error and no
\* Dependency; the error is the one raised by the grammar level that failed,
\* it ends the parse at that step with the cursor where the failure was seen
\* by that level, nothing happens after the return, and on success the
\* Dependency returned is the one that was built.
C11_AllOrNothing ==
    /\ [](Done => \/ returned.err = NoError /\ returned.dep = dep /\ ~dep.nil
                  \/ returned.err # NoError /\ returned.dep = NilDepedency)
    /\ [](~Done => returned = [dep |-> NilDepedency, err |-> NoError])
    /\ [][ /\ ~Done
           /\ (pc' = "done" /\ returned'.err # NoError)
                 => ( /\ returned'.err.msg \in RaisedBy(pc)
                      /\ returned'.dep = NilDepedency
                      /\ <<dep, relation, possi>>' = <<dep, relation, possi>> )
           /\ (pc' = "done" /\ returned'.err = NoError)
                 => pc = "parseDependency" ]_vars

\* a failure in the second Relation, after the first one was built
C11_Witness ==
    /\ Done
    /\ returned.err # NoError
    /\ returned.dep.nil
    /\ Len(dep.Relations) >= 1
    /\ possi.Name # <<>>

-----------------------------------------------------------------------------
(* Names *)

Separators == {SP, ",", "|"}

\* position s holds the first byte of a term: a byte that is neither blank
\* nor comma nor pipe nor the end sentinel, at the start of the input or
\* after a blank, a comma or a pipe
TermStart(s) ==
    /\ s \in DOMAIN Data
    /\ Data[s] \notin Blank \cup {",", "|", NUL}
    /\ s = 1 \/ Data[s - 1] \in Blank \cup {",", "|"}

\* the first position at or after s that holds a space, a comma, a pipe or
\* the end of the input as the cursor reports it
RECURSIVE RunEnd(_)
RunEnd(s) ==
    IF ByteAt(Data, s) \in Separators \cup {NUL} THEN s ELSE RunEnd(s + 1)

\* the input bytes of the term that starts at s, up to its first separator
Run(s) == SubSeq(Data, s, RunEnd(s) - 1)

\* C12: in a Dependency returned by a successful Parse every name is
\* non-empty, holds no space, comma or pipe, and is byte for byte the run of
\* input bytes from the first byte of a term up to the first space, comma,
\* pipe or end-of-input.
C12_NameIsRun ==
    Succeeded =>
        \A q \in AllPossibilities :
            /\ q.Name # <<>>
            /\ Range(q.Name) \cap Separators = {}
            /\ \E s \in DOMAIN Data : TermStart(s) /\ q.Name = Run(s)

\* The same for ASCII input, where accumulation stores each byte as it is.
AsciiNameIsRun ==
    (Succeeded /\ IsAscii(Data)) =>
        \A q \in AllPossibilities :
            /\ q.Name # <<>>
            /\ Range(q.Name) \cap Separators = {}
            /\ \E s \in DOMAIN Data : TermStart(s) /\ q.Name = Run(s)

\* names of two bytes, one of them after a pipe and blanks
AsciiNameIsRun_Witness ==
    /\ Succeeded
    /\ IsAscii(Data)
    /\ \E q \in AllPossibilities : Len(q.Name) = 2
    /\ \E s \in DOMAIN Data : s > 2 /\ TermStart(s) /\ Data[s - 1] = SP
                              /\ Run(s) \in {q.Name : q \in AllPossibilities}

\* The names as accumulation stores them, for every input.
StoredNameIsRun ==
    Succeeded =>
        \A q \in AllPossibilities :
            /\ q.Name # <<>>
            /\ Range(q.Name) \cap Separators = {}
            /\ \E s \in DOMAIN Data : TermStart(s) /\ q.Name = Stored(Run(s))

-----------------------------------------------------------------------------
(* Spaces before a controller *)

\* the step recognises the "(" or "[" under the cursor as a controller
Recognised ==
    /\ pc = "parsePossibilityControllers"
    /\ pc' \in {"parsePossibilityVersion", "parsePossibilityArchsEnter"}

\* the first position of the run of blanks that ends right before position o
RECURSIVE RunBack(_)
RunBack(o) == IF o > 1 /\ Data[o - 1] \in Blank THEN RunBack(o - 1) ELSE o

\* there is a space between position o and what precedes it
SpaceBefore(o) == \E k \in RunBack(o)..(o - 1) : Data[k] = SP

\* position o directly follows, blanks apart, a closing bracket
AfterClose(o) == RunBack(o) > 1 /\ Data[RunBack(o) - 1] \in {")", "]"}

\* "N V" directly followed by "A", and "N A" directly followed by "V"
IsNameVersionThenArchs ==
    /\ NameEnd > 0
    /\ VersionBlockAt(NameEnd + 1, VersionEnd)
    /\ ArchListAt(VersionEnd + 1, Len(Data))
    /\ ArchTokensAt(VersionEnd + 1, Len(Data)) # <<>>

IsNameArchsThenVersion ==
    /\ NameEnd > 0
    /\ ArchListAt(NameEnd + 1, ArchsEnd)
    /\ ArchTokensAt(NameEnd + 1, ArchsEnd) # <<>>
    /\ VersionBlockAt(ArchsEnd + 1, Len(Data))

\* C13 as stated: a "(" or "[" written directly after the closing bracket of
\* the previous controller is not recognised as a second controller of the
\* same term: "N V" directly followed by "A", or "N A" directly followed by
\* "V", never yields a term that carries both controllers.
C13_SpaceRequired ==
    (Done /\ (IsNameVersionThenArchs \/ IsNameArchsThenVersion)) =>
        ~(Succeeded /\ \E q \in AllPossibilities :
                           ~q.Version.nil /\ q.Arches.Arches # <<>>)

\* C13 amended: a space is required between the name and the controller that
\* follows it; after the closing bracket of a controller none is: a "(" or
\* "[" is recognised only after a space or after a closing bracket, and a
\* controller written directly after the closing bracket of the previous one
\* is the second controller of the same term.
C13_SpaceAfterNameOnly ==
    /\ [][ /\ Recognised =>
                (SpaceBefore(input'.Index + 1) \/ AfterClose(input'.Index + 1))
           /\ (pc' = "parsePossibilityControllers" /\ pc = "parsePossibility")
                => ByteAt(Data, input.Index + 1) = SP
           /\ (pc' = "parsePossibilityControllers" /\ pc # "parsePossibility")
                => ( /\ ByteAt(Data, input'.Index) \in {")", "]"}
                     /\ pc \in {"parsePossibilityVersionClose",
                                "parsePossibilityArchs",
                                "parsePossibilityControllers"} ) ]_vars
    /\ []((Done /\ IsNameVersionThenArchs /\ ~ArchRefused) =>
            /\ Succeeded
            /\ Relations = OneTerm(LeadingName,
                                   VersionAt(NameEnd + 1, VersionEnd),
                                   ArchSetAt(VersionEnd + 1, Len(Data))))
    /\ []((Done /\ IsNameArchsThenVersion /\ ~ArchRefused) =>
            /\ Succeeded
            /\ Relations = OneTerm(LeadingName,
                                   VersionAt(ArchsEnd + 1, Len(Data)),
                                   ArchSetAt(NameEnd + 1, ArchsEnd)))

\* an architecture block directly after ")" became the second controller
C13_Witness ==
    /\ Succeeded
    /\ IsNameVersionThenArchs
    /\ ~Relations[1].Possibilities[1].Version.nil
    /\ Relations[1].Possibilities[1].Arches.Arches # <<>>

\* a version block directly after "]" became the second controller
C13_WitnessSwapped ==
    /\ Succeeded
    /\ IsNameArchsThenVersion
    /\ ~Relations[1].Possibilities[1].Version.nil

-----------------------------------------------------------------------------
(* An opener directly after name bytes *)

\* the input is one term without blanks or separators that holds a "(" or
\* "[" after at least one other byte
IsSpaceFreeTerm ==
    /\ Data # <<>>
    /\ Range(Data) \cap (Blank \cup {",", "|", NUL}) = {}
    /\ \E k \in 2..Len(Data) : Data[k] \in {"(", "["}

\* the version and architecture parsers are entered from the Controllers
\* parser only, and that one from the name loop on a space after name bytes
ControllersAfterSpaceOnly ==
    /\ (pc' \in {"parsePossibilityVersion", "parsePossibilityArchsEnter"}
          /\ pc' # pc)
           => pc = "parsePossibilityControllers"
    /\ (pc = "parsePossibility" /\ pc' = "parsePossibilityControllers")
           => ( /\ ByteAt(Data, input.Index + 1) = SP
                /\ input.Index >= 1
                /\ Data[input.Index] \notin {SP, ",", "|", NUL}
                /\ possi.Name # <<>> )

\* C14: a space-free term that holds a "(" or "[" after name bytes parses to
\* one Possibility whose name is the whole term text, without version
\* constraint and with an empty architecture set; and the version and
\* architecture parsers are entered only after a space read after the name.
C14_AdjacentOpenerIsName ==
    /\ []((Done /\ IsSpaceFreeTerm) =>
            (Succeeded /\ Relations = <<RelationOfNames(<<Data>>)>>))
    /\ [][ControllersAfterSpaceOnly]_vars

\* The same with the name as byte-by-byte accumulation stores it.
AdjacentOpenerStored ==
    /\ []((Done /\ IsSpaceFreeTerm) =>
            (Succeeded /\ Relations = <<RelationOfNames(<<Stored(Data)>>)>>))
    /\ [][ControllersAfterSpaceOnly]_vars

\* "a(..." and "a[..." were returned as names
AdjacentOpenerStored_Witness ==
    /\ Succeeded
    /\ IsSpaceFreeTerm
    /\ IsAscii(Data)
    /\ Len(Data) >= 3
    /\ Relations[1].Possibilities[1].Name = Data

-----------------------------------------------------------------------------
(* The closing byte of a version block *)

\* the input is "NAME (OP ..." with both operator bytes present and neither
\* ")" nor the end sentinel after the "("
IsUnclosedVersion ==
    /\ NameEnd > 0
    /\ ByteAt(Data, NameEnd + 1) = "("
    /\ OperatorAt(NameEnd + 2) \in Operators
    /\ NameEnd + 1 + Len(OperatorAt(NameEnd + 2)) <= Len(Data)
    /\ \A k \in (NameEnd + 2)..Len(Data) : Data[k] \notin {")", NUL}

C15_WitnessClosed ==
    /\ Succeeded
    /\ IsNameVersion
    /\ \E q \in AllPossibilities : ~q.Version.nil /\ q.Version.Number # <<>>

-----------------------------------------------------------------------------
(* End of input inside a controller block *)

\* the byte under the cursor, and the first one after the blanks under it
Pending == ByteAt(Data, input.Index + 1)

PendingNonWs == FirstNonWs(Data, input.Index + 1)

\* the step ends the parse with error e
FailsWith(e) == pc' = "done" /\ returned' = [dep |-> NilDepedency, err |-> e]

\* end-of-input met by the operator, number, list and token readers
EndOfInputRefused ==
    /\ ( /\ pc = "parsePossibilityOperator"
         /\ \/ PendingNonWs = NUL
            \/ /\ PendingNonWs # "="
               /\ ByteAt(Data, SkipBlanks(Data, input.Index + 1) + 1) = NUL )
          => FailsWith(ErrOperatorEOF)
    /\ (pc = "parsePossibilityNumberEnter" /\ PendingNonWs = NUL)
          => (pc' = "parsePossibilityNumber" /\ Peek(input') = NUL)
    /\ (pc = "parsePossibilityNumber" /\ Pending = NUL)
          => FailsWith(ErrNumberEOF)
    /\ (pc = "parsePossibilityArchs" /\ Pending = NUL)
          => FailsWith(ErrArchEOF)
    /\ (pc = "parsePossibilityArchEnter" /\ PendingNonWs = NUL)
          => (pc' = "parsePossibilityArch" /\ Peek(input') = NUL)
    /\ (pc = "parsePossibilityArch" /\ Pending = NUL)
          => FailsWith(ErrArchEOF)

\* "NAME (..." without ")" after the "("
OpenVersionAtEnd ==
    /\ NameEnd > 0
    /\ FirstNonWs(Data, NameEnd) = "("
    /\ \A k \in SkipBlanks(Data, NameEnd)..Len(Data) : Data[k] # ")"

\* "NAME [..." without "]" after the "["
OpenArchsAtEnd ==
    /\ FirstBlockOpen > 0
    /\ \A k \in FirstBlockOpen..Len(Data) : Data[k] # "]"

\* C16: a controller block still open when the input ends never yields a
\* success: end-of-input met while reading the operator, the number, the
\* architecture list or a token of it ends the parse with the end-of-input
\* error of that construct, and an input whose "(" or "[" after the name is
\* never closed fails, with that error unless an earlier byte of the block
\* was refused first.
C16_OpenBlockFails ==
    /\ [][EndOfInputRefused]_vars
    /\ []((Done /\ OpenVersionAtEnd) =>
             \/ Failed(ErrOperatorEOF)
             \/ Failed(ErrNumberEOF)
             \/ returned.dep.nil /\ returned.err.msg = ErrUnknownOperator(<<>>).msg)
    /\ []((Done /\ OpenArchsAtEnd) =>
             \/ Failed(ErrArchEOF)
             \/ Failed(ErrNegation)
             \/ returned.dep.nil /\ ArchRefused)

\* the input ended inside the second token of an architecture list
C16_Witness ==
    /\ Failed(ErrArchEOF)
    /\ OpenArchsAtEnd
    /\ arch # <<>>
    /\ Len(possi.Arches.Arches) = 1

\* the input ended after the first byte of a two-byte operator
C16_WitnessOperator ==
    /\ Failed(ErrOperatorEOF)
    /\ OpenVersionAtEnd
    /\ Data[Len(Data)] \in {">", "<"}

\* the input ended inside a version number
C16_WitnessNumber ==
    /\ Failed(ErrNumberEOF)
    /\ OpenVersionAtEnd
    /\ version.Number # <<>>

-----------------------------------------------------------------------------
(* Termination *)

\* the bytes the cursor can still consume: Next is never called more than
\* twice at the end of the data
Remaining == Len(Data) + 2 - input.Index

\* the order of the steps that leave the cursor where it is, by the place in
\* the parser and the byte under the cursor
Rank ==
    LET b == Pending
    IN  CASE pc = "done" -> 0
          [] pc = "Parse" -> 7
          [] pc = "parseDependency" -> IF b \in {NUL, ","} THEN 1 ELSE 6
          [] pc = "parseRelationEnter" -> 5
          [] pc = "parseRelation" -> IF b \in {NUL, ","} THEN 2 ELSE 4
          [] pc = "parsePossibilityEnter" -> 3
          [] pc = "parsePossibility" ->
                IF b \in {NUL, ","} THEN 3
                ELSE IF b \in {"|", SP} THEN 5
                ELSE 2
          [] pc = "parsePossibilityControllers" ->
                IF b \in {NUL, ","} THEN 4
                ELSE IF b = "|" THEN 6
                ELSE IF b \in {"(", "["} THEN 2
                ELSE IF b \in Blank THEN 4
                ELSE 1
          [] pc = "parsePossibilityVersion" -> 1
          [] pc = "parsePossibilityOperator" -> 1
          [] pc = "parsePossibilityNumberEnter" -> 3
          [] pc = "parsePossibilityNumber" -> 2
          [] pc = "parsePossibilityVersionClose" -> 1
          [] pc = "parsePossibilityArchsEnter" -> 1
          [] pc = "parsePossibilityArchs" ->
                IF b \in {NUL, "]"} THEN 1
                ELSE IF b \in Blank THEN 2
                ELSE 3
          [] pc = "parsePossibilityArchEnter" -> IF b \in Blank THEN 1 ELSE 2
          [] pc = "parsePossibilityArch" ->
                IF b = SP THEN 3
                ELSE IF b = "]" THEN 2
                ELSE 1

\* what is left to do: the bytes left, then the steps left on this byte
Variant == Remaining * 8 + Rank

\* the parser is at the head of one of its loops
InLoop ==
    pc \in {"parseDependency", "parseRelation", "parsePossibility",
            "parsePossibilityControllers", "parsePossibilityNumber",
            "parsePossibilityArchs", "parsePossibilityArch"}

\* C17: Parse terminates on every input, with success or with an error:
\* every step either advances the cursor or moves on to a step that is
\* closer to a return, so that the variant decreases at every step and is
\* never negative; an iteration that stays in its loop advances the cursor;
\* and every run reaches the return.
C17_Terminates ==
    /\ <>Done
    /\ [](Variant >= 0 /\ Rank < 8)
    /\ [][ /\ Variant' < Variant
           /\ input'.Index >= input.Index
           /\ (InLoop /\ pc' = pc) => input'.Index > input.Index ]_vars
    /\ [](Done => (Succeeded \/ (returned.err # NoError /\ returned.dep.nil)))

\* the parse of a term with a version and an architecture block, followed
\* by a comma, ended
C17_Witness ==
    /\ Succeeded
    /\ \E q \in AllPossibilities : ~q.Version.nil /\ q.Arches.Arches # <<>>
    /\ Data[Len(Data)] = ","
    /\ input.Index = Len(Data)

-----------------------------------------------------------------------------
(* The cursor *)

\* C18: Peek returns the byte at the index, or the end sentinel when the
\* index is at or past the end of the data; Next returns that byte and a
\* cursor over the same data whose index is one more, also past the end;
\* across Parse the data never changes and the index never decreases; a step
\* that reads a byte and consumes it moves the index by one per byte, the
\* two operator bytes included when the data ends before them.
C18_CursorForward ==
    /\ []( /\ input.Index >= 0
           /\ Peek(input) = (IF input.Index < Len(Data)
                             THEN Data[input.Index + 1] ELSE NUL)
           /\ Next(input).chr = Peek(input)
           /\ Next(input).input = [Data |-> Data, Index |-> input.Index + 1]
           /\ Peek(Next(Next(input).input).input) =
                 ByteAt(Data, input.Index + 3) )
    /\ [][ /\ input'.Data = input.Data
           /\ input'.Index >= input.Index
           /\ (pc = "parsePossibilityOperator" /\ PendingNonWs # "=")
                 => input'.Index = SkipBlanks(Data, input.Index + 1) + 1
           /\ (pc \in {"parsePossibility", "parsePossibilityNumber",
                       "parsePossibilityArch"} /\ pc' = pc)
                 => input'.Index = input.Index + 1 ]_vars

\* Next was called twice at the end of the data
C18_Witness ==
    /\ Failed(ErrOperatorEOF)
    /\ input.Index = Len(Data) + 2
    /\ Peek(input) = NUL

-----------------------------------------------------------------------------
(* The whole input is consumed *)

\* C19: when Parse succeeds on an input without zero byte, the index equals
\* the length of the input at the return.
C19_AllConsumed ==
    (Succeeded /\ NUL \notin Range(Data)) => input.Index = Len(Data)

\* an input with controllers and a second Relation was consumed to its end
C19_Witness ==
    /\ Succeeded
    /\ NUL \notin Range(Data)
    /\ Len(Relations) = 2
    /\ \A r \in DOMAIN Relations : Relations[r].Possibilities # <<>>
    /\ \E q \in AllPossibilities : ~q.Version.nil
    /\ input.Index = Len(Data)

\* with a zero byte in the input the parse ends at it
C19_WitnessZeroByte ==
    /\ Succeeded
    /\ NUL \in Range(Data)
    /\ AllPossibilities # {}
    /\ input.Index < Len(Data) - 1

-----------------------------------------------------------------------------
(* The missing-name error *)

\* a group that starts with a name; its later alternatives are names or empty
NameFirstGroup(alts) ==
    /\ PlainName(alts[1])
    /\ \A a \in DOMAIN alts : alts[a] = <<>> \/ PlainName(alts[a])

\* a group of blanks only
BlankGroup(alts) == alts = << <<>> >>

\* every group of the input is blank or starts with a name
IsListWithEmptyTerms ==
    \A g \in DOMAIN GroupsOf(Data) :
        BlankGroup(GroupsOf(Data)[g]) \/ NameFirstGroup(GroupsOf(Data)[g])

NonEmptySeq(s) == s # <<>>

NotBlankGroup(alts) == ~BlankGroup(alts)

\* the Relations such an input stands for: the groups that are not blank,
\* each with its names that are not empty, as accumulation stores them
RelationsOfList ==
    LET kept == SelectSeq(GroupsOf(Data), NotBlankGroup)
    IN  [g \in DOMAIN kept |->
            LET names == SelectSeq(kept[g], NonEmptySeq)
            IN  RelationOfNames([n \in DOMAIN names |-> Stored(names[n])])]

\* C20: the missing-name error is unreachable: the Possibility parser is
\* entered only with a pending byte that is neither whitespace nor comma,
\* pipe or end-of-input, its first step appends that byte to the name, no
\* run ends with the missing-name error, and an empty term after a pipe
\* ("foo |", "foo | , bar") is skipped without error.
C20_NameNeverMissing ==
    /\ [](returned.err # ErrNoName)
    /\ []((pc = "parsePossibilityEnter")
             => Pending \notin Blank \cup {",", "|", NUL})
    /\ [][ /\ (pc = "parsePossibilityEnter")
                 => (pc' = "parsePossibility" /\ input' = input)
           /\ (pc = "parsePossibility" /\ possi.Name = <<>>)
                 => ( /\ pc' = "parsePossibility"
                      /\ possi'.Name # <<>>
                      /\ input'.Index = input.Index + 1 ) ]_vars
    /\ []((Done /\ IsListWithEmptyTerms) =>
             (Succeeded /\ Relations = RelationsOfList))

\* "a |" style inputs: an empty term after a pipe was skipped
C20_Witness ==
    /\ Succeeded
    /\ IsListWithEmptyTerms
    /\ \E g \in DOMAIN GroupsOf(Data) :
          /\ NameFirstGroup(GroupsOf(Data)[g])
          /\ \E a \in DOMAIN GroupsOf(Data)[g] : GroupsOf(Data)[g][a] = <<>>
    /\ Len(Relations) = 2

====
